---- MODULE Spec2Model ----
(***************************************************************************)
(* A model of the PDF retrieval-and-extraction pipeline of src/tools.py:   *)
(* PDFProcessor.download_pdf, extract_text_pypdf2, extract_text_pdfplumber,*)
(* process_pdf_from_url, and the two tool functions download_and_parse_pdf *)
(* and get_pdf_metadata.                                                   *)
(*                                                                         *)
(* Python strings are TLA+ strings (TLC evaluates Len, \o, SubSeq, Head    *)
(* and Tail on them).  Python's None is the reserved token None below; no  *)
(* string the program handles equals it.                                   *)
(***************************************************************************)
EXTENDS Naturals, Sequences, FiniteSets, TLC

(***************************************************************************)
(* Bounds of the model.                                                    *)
(***************************************************************************)
\* the largest number of pages of a served document
MaxPages == 2

\* the number of callers that use the shared pdf_processor at the same time
NumCallers == 2

(***************************************************************************)
(* Python values and string helpers.                                       *)
(***************************************************************************)
None == "<None>"

IsStr(v) == v # None

CharAt(s, i) == SubSeq(s, i, i)

\* the characters str.strip() removes
IsSpace(c) == c \in {" ", "\n", "\t", "\r"}

\* `not s.strip()`: s is empty or whitespace only
IsBlank(s) == \A i \in 1..Len(s) : IsSpace(CharAt(s, i))

\* Python truthiness of an optional string: None and "" are falsy
Truthy(v) == IsStr(v) /\ v # ""

RECURSIVE Count(_, _)
\* str.count(sub): the number of non-overlapping occurrences, left to right
Count(s, sub) ==
    IF Len(s) < Len(sub) THEN 0
    ELSE IF SubSeq(s, 1, Len(sub)) = sub
         THEN 1 + Count(SubSeq(s, Len(sub) + 1, Len(s)), sub)
         ELSE Count(Tail(s), sub)

RECURSIVE JoinNL(_)
\* '\n'.join(parts)
JoinNL(parts) ==
    IF parts = << >> THEN ""
    ELSE IF Len(parts) = 1 THEN parts[1]
    ELSE parts[1] \o "\n" \o JoinNL(Tail(parts))

UpperLetters == "ABCDEFGHIJKLMNOPQRSTUVWXYZ"
LowerLetters == "abcdefghijklmnopqrstuvwxyz"

LowerChar(c) ==
    IF \E i \in 1..26 : CharAt(UpperLetters, i) = c
    THEN CharAt(LowerLetters, CHOOSE i \in 1..26 : CharAt(UpperLetters, i) = c)
    ELSE c

RECURSIVE Lower(_)
\* str.lower()
Lower(s) == IF s = "" THEN "" ELSE LowerChar(Head(s)) \o Lower(Tail(s))

HasPrefix(s, p) == Len(s) >= Len(p) /\ SubSeq(s, 1, Len(p)) = p

\* str.find(c) for a one-character c: the first index (1-based), 0 when absent
Find(s, c) ==
    IF \E i \in 1..Len(s) : CharAt(s, i) = c
    THEN CHOOSE i \in 1..Len(s) :
            CharAt(s, i) = c /\ \A j \in 1..(i - 1) : CharAt(s, j) # c
    ELSE 0

(***************************************************************************)
(* urllib.parse.urlparse, as far as download_pdf uses it: the scheme is    *)
(* the text before the first ':' when it is made of scheme characters and  *)
(* starts with a letter; the netloc is what follows a leading '//' up to   *)
(* the first '/', '?' or '#'.  A netloc with an unmatched bracket makes    *)
(* urlparse raise ValueError.                                              *)
(***************************************************************************)
IsLetter(c) ==
    \E i \in 1..26 : CharAt(UpperLetters, i) = c \/ CharAt(LowerLetters, i) = c

IsSchemeChar(c) ==
    \/ IsLetter(c)
    \/ \E i \in 1..13 : CharAt("0123456789+-.", i) = c

\* the 1-based index of the ':' that ends a scheme, 0 when the URL has no scheme
SchemeEnd(u) ==
    LET i == Find(u, ":")
    IN  IF /\ i > 1
           /\ IsLetter(CharAt(u, 1))
           /\ \A j \in 1..(i - 1) : IsSchemeChar(CharAt(u, j))
        THEN i ELSE 0

UrlScheme(u) ==
    IF ~IsStr(u) THEN ""
    ELSE IF SchemeEnd(u) = 0 THEN "" ELSE Lower(SubSeq(u, 1, SchemeEnd(u) - 1))

\* the URL with its scheme and ':' removed
AfterScheme(u) == SubSeq(u, SchemeEnd(u) + 1, Len(u))

RECURSIVE UpToDelimiter(_)
\* the prefix of s before the first '/', '?' or '#'
UpToDelimiter(s) ==
    IF s = "" \/ Head(s) \in {"/", "?", "#"} THEN ""
    ELSE Head(s) \o UpToDelimiter(Tail(s))

UrlNetloc(u) ==
    IF ~IsStr(u) THEN ""
    ELSE IF HasPrefix(AfterScheme(u), "//")
         THEN UpToDelimiter(SubSeq(AfterScheme(u), 3, Len(AfterScheme(u))))
         ELSE ""

\* urlparse raises ValueError("Invalid IPv6 URL") on an unmatched bracket
UrlParseRaises(u) ==
    (Find(UrlNetloc(u), "[") > 0) # (Find(UrlNetloc(u), "]") > 0)

\* a variant of ValidUrl that forgets the netloc test
ValidUrlSchemeOnly(u) == UrlScheme(u) # ""

\* `if not parsed_url.scheme or not parsed_url.netloc` does not reject the URL
ValidUrl(u) == UrlScheme(u) # "" /\ UrlNetloc(u) # ""

(***************************************************************************)
(* The inputs and the world.                                               *)
(***************************************************************************)
GoodUrl == "https://h.in/a.pdf"

\* a well-formed absolute URL whose fragment (which is never sent to the
\* server) holds a line break
FragmentUrl == "https://h.in/a.pdf#a\nb"

Urls ==
    { GoodUrl,              \* a well-formed absolute URL
      FragmentUrl,
      "",                   \* the empty string
      "h.in/a.pdf",         \* no scheme (and so no netloc)
      "https:///a.pdf",     \* a scheme, no host
      "//h.in/a.pdf",       \* a host, no scheme
      "https://[h/a.pdf",   \* urlparse raises on it
      None }

Methods == {"pdfplumber", "pypdf2", "bogus", "PDFPlumber", None}

RecognizedMethods == {"pdfplumber", "pypdf2"}

\* what page.extract_text() does on one page: returns a string, returns None,
\* or raises
PageTexts == {"", " \n", "ab", "x--- Page"}

Pages ==
    {[kind |-> "text", text |-> t] : t \in PageTexts}
        \cup {[kind |-> "none", text |-> ""], [kind |-> "raise", text |-> ""]}

\* a response body: no bytes at all, bytes that are no PDF, or a PDF
Bodies ==
    {[kind |-> "empty", pages |-> << >>], [kind |-> "garbage", pages |-> << >>]}
        \cup {[kind |-> "pdf", pages |-> p] :
                 p \in UNION {[1..n -> Pages] : n \in 0..MaxPages}}

\* download_pdf's return value None
NoBytes == [kind |-> "None", pages |-> << >>]

\* a variant of BytesTruthy for a dispatch that never tests the fetched bytes
BytesTruthyAlways(b) == TRUE

\* `not pdf_content`: None and b"" are falsy
BytesTruthy(b) == b.kind \notin {"None", "empty"}

\* what the network does with one request: a status line, or an exception of
\* requests (a DNS failure or a refused connection is a ConnectionError)
NetOutcomes == {"200", "404", "ConnectionError", "Timeout"}

NetErrors == {"ConnectionError", "Timeout"}

StatusCode(net) == IF net = "200" THEN 200 ELSE 404

NoResponse == [status |-> 0, conn |-> "none"]

ServedHeaders(b) ==
    [content_type   |-> IF b.kind = "pdf" THEN "application/pdf" ELSE "",
     content_length |-> IF b.kind = "empty" THEN "0" ELSE "",
     last_modified  |-> ""]

(***************************************************************************)
(* The state: the position of the one running invocation, its arguments    *)
(* and locals, what it returns, and the world it runs against.             *)
(***************************************************************************)
VARIABLES
    pc,                 \* where the invocation stands; "idle" between invocations
    entry,              \* the public function called: "process", "tool", "probe"
    url,                \* the url argument
    extraction_method,  \* download_and_parse_pdf's argument, as passed
    method,             \* process_pdf_from_url's argument
    body,               \* the bytes the server holds for every URL
    response,           \* the response object of the request: status, connection
    pdf_content,        \* what download_pdf returned
    strategy,           \* the extractor called: "pdfplumber", "pypdf2" or "none"
    page_num,           \* the extractor's loop index
    text_content,       \* the extractor's list of output pieces
    handle,             \* the document pdfplumber.open returned: none/open/closed
    extracted_text,     \* what the extractor returned
    result,             \* process_pdf_from_url's result dict
    report,             \* download_and_parse_pdf's return value
    probe,              \* get_pdf_metadata's return value
    exc,                \* the exception in flight
    frame,              \* the try block the exception in flight was raised in
    raised,             \* the exception that left the public function
    getCalls,           \* session.get calls of this invocation
    headCalls,          \* session.head calls of this invocation
    ran,                \* the extractors this invocation called, in order
    markers,            \* the page numbers the running extractor put a marker for
    history,            \* <<extractor, output>> of every extraction evaluated so far
    session,            \* pdf_processor.session, shared by every invocation
    callers,            \* the locals of each concurrent invocation of the pipeline
    results             \* the result dict of each concurrent invocation

vars ==
    <<pc, entry, url, extraction_method, method, body, response, pdf_content,
      strategy, page_num, text_content, handle, extracted_text, result, report,
      probe, exc, frame, raised, getCalls, headCalls, ran, markers, history,
      session, callers, results>>

\* lines 154-164: the result dict process_pdf_from_url starts from
NewResult(u, m) ==
    [success  |-> FALSE,
     text     |-> "",
     error    |-> None,
     metadata |-> [url |-> u, method |-> m,
                   pages_processed |-> 0, content_length |-> 0]]

NoProbe == [url |-> None]

\* lines 28-33: the session PDFProcessor.__init__ builds, with its User-Agent
NewSession == [headers |-> [user_agent |-> "Mozilla/5.0"]]

Callers == 1..NumCallers

\* no request sent yet
NoHeaders == [user_agent |-> None]

\* a caller that is not inside process_pdf_from_url
IdleCaller ==
    [pc |-> "idle", url |-> None, method |-> None, net |-> "none",
     sent |-> NoHeaders, pdf_content |-> NoBytes, extracted_text |-> None]

Init ==
    /\ pc = "idle"
    /\ entry = "none"
    /\ url = None
    /\ extraction_method = None
    /\ method = None
    /\ body \in Bodies
    /\ response = NoResponse
    /\ pdf_content = NoBytes
    /\ strategy = "none"
    /\ page_num = 0
    /\ text_content = << >>
    /\ handle = "none"
    /\ extracted_text = None
    /\ result = NewResult(None, None)
    /\ report = None
    /\ probe = NoProbe
    /\ exc = None
    /\ frame = "none"
    /\ raised = None
    /\ getCalls = 0
    /\ headCalls = 0
    /\ ran = << >>
    /\ markers = << >>
    /\ history = {}
    /\ session = NewSession
    /\ callers = [p \in Callers |-> IdleCaller]
    /\ results = [p \in Callers |-> NewResult(None, None)]

\* what a single invocation leaves alone: the served body, the shared session
\* and the invocations of other callers
world == <<body, session, callers, results>>

netVars == <<response, pdf_content, getCalls, headCalls>>

extractVars == <<strategy, page_num, text_content, handle, extracted_text, ran,
                 markers, history>>

outVars == <<result, report, probe, raised>>

excVars == <<exc, frame>>

argVars == <<entry, url, extraction_method, method>>

(***************************************************************************)
(* Exceptions.  A raise records the exception and the try block it         *)
(* happened in; Unwind then runs the handler of the innermost try block    *)
(* that catches it.                                                        *)
(***************************************************************************)
\* the try block enclosing try block f; "caller" is outside the public function
Outer(f) ==
    CASE f = "page"     -> "extract"
      [] f = "extract"  -> "process"
      [] f = "download" -> "process"
      [] f = "process"  -> IF entry = "tool" THEN "tool" ELSE "caller"
      [] f = "tool"     -> "caller"
      [] f = "probe"    -> "caller"
      [] OTHER          -> "caller"

\* a variant of Catches without the try block around one page's extraction
CatchesNoPageHandler(f, e) ==
    f \in {"extract", "download", "process", "tool", "probe"}

\* every handler of tools.py is `except Exception` (download_pdf's first clause,
\* `except requests.exceptions.RequestException`, is followed by one), and every
\* exception modelled is an Exception
Catches(f, e) == f \in {"page", "extract", "download", "process", "tool", "probe"}

RECURSIVE Landing(_, _)
\* where an exception raised in try block f is handled
Landing(f, e) ==
    IF f = "caller" \/ Catches(f, e) THEN f ELSE Landing(Outer(f), e)

Raise(f, e) ==
    /\ pc' = "raising"
    /\ exc' = e
    /\ frame' = f

\* where process_pdf_from_url returns to
ProcessReturnPc == IF entry = "tool" THEN "format" ELSE "done"

(***************************************************************************)
(* The three public entry points.                                          *)
(***************************************************************************)
\* lines 232-233: an unrecognized extraction_method becomes "pdfplumber"
NormaliseMethod(m) == IF m \notin RecognizedMethods THEN "pdfplumber" ELSE m

\* line 229: `not url or not isinstance(url, str)`
ToolRejectsUrl(u) == ~Truthy(u)

\* pdf_processor.process_pdf_from_url(u, m) called directly: lines 154-166
CallProcess(u, m) ==
    /\ pc = "idle"
    /\ entry' = "process"
    /\ url' = u
    /\ method' = m
    /\ result' = NewResult(u, m)
    /\ pc' = "dl_validate"
    /\ UNCHANGED <<extraction_method, report, probe, raised>>
    /\ UNCHANGED <<world, netVars, extractVars, excVars>>

\* download_and_parse_pdf(u, m): lines 225-237, up to the download
CallTool(u, m) ==
    /\ pc = "idle"
    /\ entry' = "tool"
    /\ url' = u
    /\ extraction_method' = m
    /\ IF ToolRejectsUrl(u)
       THEN /\ report' = "Error: Invalid URL provided"
            /\ pc' = "done"
            /\ UNCHANGED <<method, result>>
       ELSE /\ method' = NormaliseMethod(m)
            /\ result' = NewResult(u, NormaliseMethod(m))
            /\ pc' = "dl_validate"
            /\ UNCHANGED report
    /\ UNCHANGED <<probe, raised>>
    /\ UNCHANGED <<world, netVars, extractVars, excVars>>

\* get_pdf_metadata(u): line 272
CallProbe(u) ==
    /\ pc = "idle"
    /\ entry' = "probe"
    /\ url' = u
    /\ pc' = "probe_head"
    /\ UNCHANGED <<extraction_method, method>>
    /\ UNCHANGED <<world, netVars, extractVars, outVars, excVars>>

(***************************************************************************)
(* PDFProcessor.download_pdf.                                              *)
(***************************************************************************)
\* lines 49-53: parse the URL and reject one without scheme or netloc
DownloadValidate ==
    /\ pc = "dl_validate"
    /\ IF UrlParseRaises(url)
       THEN /\ Raise("download", "Invalid IPv6 URL")
            /\ UNCHANGED pdf_content
       ELSE IF ~ValidUrl(url)
       THEN /\ pdf_content' = NoBytes
            /\ pc' = "dispatch"
            /\ UNCHANGED excVars
       ELSE /\ pc' = "dl_get"
            /\ UNCHANGED <<pdf_content, excVars>>
    /\ UNCHANGED <<response, getCalls, headCalls>>
    /\ UNCHANGED <<world, argVars, extractVars, outVars>>

\* line 56: self.session.get(url, timeout=timeout, stream=True).  With
\* stream=True the response keeps its connection until the body is read or
\* the response is closed.
SessionGet ==
    /\ pc = "dl_get"
    /\ getCalls' = getCalls + 1
    /\ \E net \in NetOutcomes :
          IF net \in NetErrors
          THEN /\ Raise("download", net)
               /\ UNCHANGED response
          ELSE /\ response' = [status |-> StatusCode(net), conn |-> "held"]
               /\ pc' = "dl_status"
               /\ UNCHANGED excVars
    /\ UNCHANGED <<pdf_content, headCalls>>
    /\ UNCHANGED <<world, argVars, extractVars, outVars>>

\* a variant of StatusRaises for a request whose status is never checked
StatusNeverRaises(status) == FALSE

\* raise_for_status(): HTTPError on a 4xx or 5xx status
StatusRaises(status) == status >= 400

\* line 57: response.raise_for_status()
RaiseForStatus ==
    /\ pc = "dl_status"
    /\ IF StatusRaises(response.status)
       THEN Raise("download", "HTTPError")
       ELSE pc' = "dl_read" /\ UNCHANGED excVars
    /\ UNCHANGED <<world, argVars, netVars, extractVars, outVars>>

\* lines 59-68: the content-type check only logs; response.content reads the
\* body, which gives the connection back whether the read succeeds or fails
ReadContent ==
    /\ pc = "dl_read"
    /\ response' = [response EXCEPT !.conn = "released"]
    /\ \E ok \in BOOLEAN :
          IF ok
          THEN /\ pdf_content' = body
               /\ pc' = "dispatch"
               /\ UNCHANGED excVars
          ELSE /\ Raise("download", "ChunkedEncodingError")
               /\ UNCHANGED pdf_content
    /\ UNCHANGED <<getCalls, headCalls>>
    /\ UNCHANGED <<world, argVars, extractVars, outVars>>

(***************************************************************************)
(* PDFProcessor.process_pdf_from_url, after the download.                  *)
(***************************************************************************)
\* lines 174-177: `method.lower() == "pdfplumber"` picks pdfplumber, anything
\* else PyPDF2
SelectStrategy(m) == IF Lower(m) = "pdfplumber" THEN "pdfplumber" ELSE "pypdf2"

\* a variant of DownloadFailed that returns the result without an error
DownloadFailedNoError(res) == res

\* lines 169-171: the result of a failed download
DownloadFailed(res) == [res EXCEPT !.error = "Failed to download PDF"]

\* lines 169-177
Dispatch ==
    /\ pc = "dispatch"
    /\ IF ~BytesTruthy(pdf_content)
       THEN /\ result' = DownloadFailed(result)
            /\ pc' = ProcessReturnPc
            /\ UNCHANGED <<strategy, ran, excVars>>
       ELSE IF ~IsStr(method)
       THEN /\ Raise("process", "'NoneType' object has no attribute 'lower'")
            /\ UNCHANGED <<strategy, ran, result>>
       ELSE /\ strategy' = SelectStrategy(method)
            /\ ran' = Append(ran, SelectStrategy(method))
            /\ pc' = "ex_open"
            /\ UNCHANGED <<result, excVars>>
    /\ UNCHANGED <<page_num, text_content, handle, extracted_text, markers, history>>
    /\ UNCHANGED <<report, probe, raised>>
    /\ UNCHANGED <<world, argVars, netVars>>

(***************************************************************************)
(* The extractors, extract_text_pypdf2 and extract_text_pdfplumber.  They  *)
(* differ in the library that opens the bytes, in pdfplumber's `with`      *)
(* block, and in the test on the page text.                                *)
(***************************************************************************)
\* lines 98 and 131: f"\n--- Page {page_num} ---\n"
Marker(n) == "\n--- Page " \o ToString(n) \o " ---\n"

\* page.extract_text() raises, or (PyPDF2, line 97) page_text.strip() is
\* called on None
PageRaises(s, page) ==
    \/ page.kind = "raise"
    \/ s = "pypdf2" /\ page.kind = "none"

\* str(e) of the exception PageRaises stands for
PageError(page) ==
    IF page.kind = "none"
    THEN "'NoneType' object has no attribute 'strip'"
    ELSE "page extraction failed"

\* a variant of PageYields whose pdfplumber branch tests `if page_text` alone
PageYieldsTruthyOnly(s, page) ==
    IF s = "pdfplumber"
    THEN page.kind = "text" /\ Truthy(page.text)
    ELSE page.kind = "text" /\ ~IsBlank(page.text)

\* line 97 `if page_text.strip()`, line 130 `if page_text and page_text.strip()`
PageYields(s, page) ==
    IF s = "pdfplumber"
    THEN page.kind = "text" /\ Truthy(page.text) /\ ~IsBlank(page.text)
    ELSE page.kind = "text" /\ ~IsBlank(page.text)

\* lines 98-99 and 131-132: the marker, then the page's text
AppendPage(content, n, page) == content \o <<Marker(n), page.text>>

\* the extractor hands `text` back to process_pdf_from_url
ExtractorReturns(text) ==
    /\ extracted_text' = text
    /\ pc' = "evaluate"

\* lines 88-92 and 121-125: a fresh list, then open the bytes as a document
ExtractOpen ==
    /\ pc = "ex_open"
    /\ text_content' = << >>
    /\ markers' = << >>
    /\ IF pdf_content.kind # "pdf"
       THEN /\ Raise("extract", "not a PDF document")
            /\ UNCHANGED <<page_num, handle>>
       ELSE /\ handle' = IF strategy = "pdfplumber" THEN "open" ELSE handle
            /\ page_num' = 1
            /\ pc' = "ex_page"
            /\ UNCHANGED excVars
    /\ UNCHANGED <<strategy, extracted_text, ran, history>>
    /\ UNCHANGED <<world, argVars, netVars, outVars>>

\* lines 94-102 and 127-135: one turn of the page loop
ExtractPage ==
    /\ pc = "ex_page"
    /\ page_num <= Len(pdf_content.pages)
    /\ LET page == pdf_content.pages[page_num]
       IN  IF PageRaises(strategy, page)
           THEN /\ Raise("page", PageError(page))
                /\ UNCHANGED <<page_num, text_content, markers>>
           ELSE /\ IF PageYields(strategy, page)
                   THEN /\ text_content' = AppendPage(text_content, page_num, page)
                        /\ markers' = Append(markers, page_num)
                   ELSE UNCHANGED <<text_content, markers>>
                /\ page_num' = page_num + 1
                /\ UNCHANGED <<pc, excVars>>
    /\ UNCHANGED <<strategy, handle, extracted_text, ran, history>>
    /\ UNCHANGED <<world, argVars, netVars, outVars>>

\* lines 104 and 137: the loop is over; the `with` block closes the document
\* and the pieces are joined
ExtractReturn ==
    /\ pc = "ex_page"
    /\ page_num > Len(pdf_content.pages)
    /\ handle' = IF handle = "open" THEN "closed" ELSE handle
    /\ ExtractorReturns(JoinNL(text_content))
    /\ UNCHANGED <<strategy, page_num, text_content, ran, markers, history>>
    /\ UNCHANGED <<world, argVars, netVars, outVars, excVars>>

(***************************************************************************)
(* The end of process_pdf_from_url and of download_and_parse_pdf.          *)
(***************************************************************************)
\* lines 179-181
EmptyExtraction(res) == [res EXCEPT !.error = "No text could be extracted from PDF"]

\* lines 184-187
Success(res, text) ==
    [res EXCEPT !.success = TRUE,
                !.text = text,
                !.metadata.content_length = Len(text),
                !.metadata.pages_processed = Count(text, "--- Page")]

\* lines 179-191
Evaluate ==
    /\ pc = "evaluate"
    /\ result' = IF IsBlank(extracted_text)
                 THEN EmptyExtraction(result)
                 ELSE Success(result, extracted_text)
    /\ pc' = ProcessReturnPc
    /\ history' = history \cup {<<strategy, extracted_text>>}
    /\ UNCHANGED <<strategy, page_num, text_content, handle, extracted_text, ran,
                   markers>>
    /\ UNCHANGED <<report, probe, raised>>
    /\ UNCHANGED <<world, argVars, netVars, excVars>>

\* lines 240-250: the report of a successful result
Header(metadata) ==
    "\n=== PDF Processing Results ===\nSource URL: " \o metadata.url
        \o "\nPages Processed: " \o ToString(metadata.pages_processed)
        \o "\nContent Length: " \o ToString(metadata.content_length)
        \o " characters\nExtraction Method: " \o metadata.method
        \o "\n=== Text Content ===\n\n"

\* a variant of FormatReport that returns a failure's error without its prefix
FormatReportBare(res) ==
    IF res.success
    THEN Header(res.metadata) \o res.text
    ELSE res.error

\* lines 239-254
FormatReport(res) ==
    IF res.success
    THEN Header(res.metadata) \o res.text
    ELSE "Failed to process PDF: " \o res.error

Format ==
    /\ pc = "format"
    /\ report' = FormatReport(result)
    /\ pc' = "done"
    /\ UNCHANGED <<result, probe, raised>>
    /\ UNCHANGED <<world, argVars, netVars, extractVars, excVars>>

(***************************************************************************)
(* get_pdf_metadata.                                                       *)
(***************************************************************************)
\* session.head(url) turns the url into a string and refuses, before any
\* network activity, one without scheme or host
PrepareError(u) ==
    LET su == IF IsStr(u) THEN u ELSE "None"
    IN  IF UrlScheme(su) = "" THEN "MissingSchema"
        ELSE IF UrlNetloc(su) = "" \/ UrlParseRaises(su) THEN "InvalidURL"
        ELSE None

\* line 273: pdf_processor.session.head(url, timeout=10).  The request is not
\* streamed: the connection is given back before head() returns.
ProbeHead ==
    /\ pc = "probe_head"
    /\ IF PrepareError(url) # None
       THEN /\ Raise("probe", PrepareError(url))
            /\ UNCHANGED <<response, headCalls>>
       ELSE /\ headCalls' = headCalls + 1
            /\ \E net \in NetOutcomes :
                  IF net \in NetErrors
                  THEN /\ Raise("probe", net)
                       /\ UNCHANGED response
                  ELSE /\ response' = [status |-> StatusCode(net),
                                       conn |-> "released"]
                       /\ pc' = "probe_status"
                       /\ UNCHANGED excVars
    /\ UNCHANGED <<pdf_content, getCalls>>
    /\ UNCHANGED <<world, argVars, extractVars, outVars>>

\* lines 276-282
ProbeRecord(headers, status, u) ==
    [content_type   |-> headers.content_type,
     content_length |-> headers.content_length,
     last_modified  |-> headers.last_modified,
     status_code    |-> status,
     url            |-> u]

\* line 284
ProbeFailure(e, u) == [error |-> e, url |-> u]

\* lines 274-282
ProbeStatus ==
    /\ pc = "probe_status"
    /\ IF StatusRaises(response.status)
       THEN /\ Raise("probe", "HTTPError")
            /\ UNCHANGED probe
       ELSE /\ probe' = ProbeRecord(ServedHeaders(body), response.status, url)
            /\ pc' = "done"
            /\ UNCHANGED excVars
    /\ UNCHANGED <<result, report, raised>>
    /\ UNCHANGED <<world, argVars, netVars, extractVars>>

(***************************************************************************)
(* Exception handlers, the garbage collector, and the return.              *)
(***************************************************************************)
\* a variant of UnexpectedFailure that returns the result without an error
UnexpectedFailureLost(res, e) == res

\* lines 193-196
UnexpectedFailure(res, e) ==
    [res EXCEPT !.error = "Unexpected error processing PDF: " \o e]

\* lines 256-259
UnexpectedReport(e) == "Unexpected error in download_and_parse_pdf: " \o e

\* The exception in flight reaches the handler that catches it:
\*   page      lines 100-102, 133-135: log, next page
\*   extract   lines 106-108, 139-141: return ""
\*   download  lines 70-75: return None
\*   process   lines 193-196: the error goes into the result, which is returned
\*   tool      lines 256-259: the diagnostic string is returned
\*   probe     lines 283-284: the error record is returned
\* or leaves the public function.  An exception that leaves pdfplumber's
\* `with` block closes the document on its way.
Unwind ==
    /\ pc = "raising"
    /\ LET land == Landing(frame, exc)
       IN  /\ pc' = CASE land = "page"     -> "ex_page"
                      [] land = "extract"  -> "evaluate"
                      [] land = "download" -> "dispatch"
                      [] land = "process"  -> ProcessReturnPc
                      [] OTHER             -> "done"
           /\ page_num' = IF land = "page" THEN page_num + 1 ELSE page_num
           /\ handle' = IF land # "page" /\ handle = "open" THEN "closed" ELSE handle
           /\ extracted_text' = IF land = "extract" THEN "" ELSE extracted_text
           /\ pdf_content' = IF land = "download" THEN NoBytes ELSE pdf_content
           /\ result' = IF land = "process"
                        THEN UnexpectedFailure(result, exc)
                        ELSE result
           /\ report' = IF land = "tool" THEN UnexpectedReport(exc) ELSE report
           /\ probe' = IF land = "probe" THEN ProbeFailure(exc, url) ELSE probe
           /\ raised' = IF land = "caller" THEN exc ELSE raised
    /\ exc' = None
    /\ frame' = "none"
    /\ UNCHANGED <<response, getCalls, headCalls>>
    /\ UNCHANGED <<strategy, text_content, ran, markers, history>>
    /\ UNCHANGED <<world, argVars>>

\* download_pdf has returned and nothing refers to its response any more
ResponseUnreachable ==
    pc \in {"dispatch", "ex_open", "ex_page", "evaluate", "format", "done"}
        \/ (pc = "raising" /\ frame \in {"process", "extract", "page"})

\* The code never closes the response.  One that still holds its connection
\* when download_pdf returns (raise_for_status raised before the body was
\* read) gives it back only when the interpreter finalizes the object, at a
\* time the language does not fix.
Finalize ==
    /\ response.conn = "held"
    /\ ResponseUnreachable
    /\ response' = [response EXCEPT !.conn = "released"]
    /\ UNCHANGED <<pc, pdf_content, getCalls, headCalls>>
    /\ UNCHANGED <<world, argVars, extractVars, outVars, excVars>>

\* the public function has returned; the next invocation starts from scratch
Return ==
    /\ pc = "done"
    /\ pc' = "idle"
    /\ entry' = "none"
    /\ url' = None
    /\ extraction_method' = None
    /\ method' = None
    /\ response' = NoResponse
    /\ pdf_content' = NoBytes
    /\ strategy' = "none"
    /\ page_num' = 0
    /\ text_content' = << >>
    /\ handle' = "none"
    /\ extracted_text' = None
    /\ result' = NewResult(None, None)
    /\ report' = None
    /\ probe' = NoProbe
    /\ raised' = None
    /\ getCalls' = 0
    /\ headCalls' = 0
    /\ ran' = << >>
    /\ markers' = << >>
    /\ UNCHANGED <<world, history, excVars>>

Next ==
    \/ \E u \in Urls, m \in Methods : CallProcess(u, m)
    \/ \E u \in Urls, m \in Methods : CallTool(u, m)
    \/ \E u \in Urls : CallProbe(u)
    \/ DownloadValidate
    \/ SessionGet
    \/ RaiseForStatus
    \/ ReadContent
    \/ Dispatch
    \/ ExtractOpen
    \/ ExtractPage
    \/ ExtractReturn
    \/ Evaluate
    \/ Format
    \/ ProbeHead
    \/ ProbeStatus
    \/ Unwind
    \/ Finalize
    \/ Return

Spec == Init /\ [][Next]_vars

(***************************************************************************)
(* Vocabulary of the properties.                                           *)
(***************************************************************************)
\* process_pdf_from_url has handed its result back
ProcessReturned == pc = "format" \/ (pc = "done" /\ entry = "process")

\* download_and_parse_pdf has returned
ToolReturned == pc = "done" /\ entry = "tool"

\* get_pdf_metadata has returned
ProbeReturned == pc = "done" /\ entry = "probe"

\* the malformed URLs among the inputs: empty, without scheme, without host
MalformedUrls == {"", "h.in/a.pdf", "https:///a.pdf", "//h.in/a.pdf"}

\* the method argument as the caller of the public function passed it
MethodPassed == IF entry = "tool" THEN extraction_method ELSE method

(***************************************************************************)
(* C1: every result process_pdf_from_url returns, on every exit path, is   *)
(* one of the two shapes: success with no error and a non-empty text, or   *)
(* failure with an empty text and a non-empty error string; and it is      *)
(* returned, not raised.                                                   *)
(***************************************************************************)
C1_Envelope ==
    ProcessReturned =>
        /\ raised = None
        /\ result.success => result.error = None /\ result.text # ""
        /\ ~result.success =>
              result.text = "" /\ result.error # None /\ result.error # ""

\* the catch-all branch (lines 193-196) has produced the result
C1_Witness ==
    /\ ProcessReturned
    /\ HasPrefix(result.error, "Unexpected error processing PDF: ")

(***************************************************************************)
(* C2: with a malformed URL (empty, no scheme, no host) no session.get is  *)
(* issued at any point of the invocation, and the result is a failure.     *)
(***************************************************************************)
C2_NoNetworkOnMalformedUrl ==
    (entry \in {"process", "tool"} /\ url \in MalformedUrls) =>
        /\ getCalls = 0
        /\ ProcessReturned => ~result.success

\* the pipeline has returned for a URL with a scheme and no host
C2_Witness ==
    /\ ProcessReturned
    /\ url = "https:///a.pdf"
    /\ ~result.success
    /\ getCalls = 0

(***************************************************************************)
(* C3, as stated: download_and_parse_pdf never raises and every failure    *)
(* it reports for a string url, the empty string included, reads           *)
(* "Failed to process PDF: <error>" (or "Unexpected error in               *)
(* download_and_parse_pdf: <message>" for an unanticipated fault).         *)
(***************************************************************************)
C3_Original ==
    (ToolReturned /\ IsStr(url) /\ ~result.success) =>
        /\ raised = None
        /\ \/ HasPrefix(report, "Failed to process PDF: ")
           \/ HasPrefix(report, "Unexpected error in download_and_parse_pdf: ")
        /\ url \in MalformedUrls => HasPrefix(report, "Failed to process PDF: ")

(***************************************************************************)
(* C3, amended: download_and_parse_pdf never raises; for an empty (or      *)
(* non-string) url it returns "Error: Invalid URL provided"; for every     *)
(* other expected failure (malformed non-empty URL, network failure, empty *)
(* extraction) it returns "Failed to process PDF: " followed by the        *)
(* pipeline's error, which is "Failed to download PDF" or "No text could   *)
(* be extracted from PDF"; a successful result is never reported so.       *)
(***************************************************************************)
C3_Amended ==
    ToolReturned =>
        /\ raised = None
        /\ IF url \in {"", None}
           THEN report = "Error: Invalid URL provided"
           ELSE IF result.success
           THEN /\ ~HasPrefix(report, "Failed to process PDF: ")
                /\ ~HasPrefix(report, "Unexpected error in download_and_parse_pdf: ")
                /\ ~HasPrefix(report, "Error: ")
           ELSE /\ report = "Failed to process PDF: " \o result.error
                /\ result.error \in {"Failed to download PDF",
                                     "No text could be extracted from PDF"}

\* the tool has reported an empty extraction of a fetched document
C3_Witness ==
    /\ ToolReturned
    /\ url = GoodUrl
    /\ ran # << >>
    /\ report = "Failed to process PDF: No text could be extracted from PDF"

(***************************************************************************)
(* C4: for a method string that is neither "pdfplumber" nor "pypdf2", the  *)
(* extraction is done by pdfplumber, whether process_pdf_from_url is       *)
(* called directly or through download_and_parse_pdf, and the result is    *)
(* not a failure caused by the method.                                     *)
(***************************************************************************)
C4_UnrecognizedMethodUsesDefault ==
    (/\ entry \in {"process", "tool"}
     /\ IsStr(MethodPassed)
     /\ MethodPassed \notin RecognizedMethods) =>
        /\ \A i \in 1..Len(ran) : ran[i] = "pdfplumber"
        /\ ~HasPrefix(result.error, "Unexpected error processing PDF: ")

(***************************************************************************)
(* C5: in every successful result, metadata.pages_processed is the number  *)
(* of page markers the extractor appended, whatever the text of the pages. *)
(***************************************************************************)
C5_PagesProcessedCountsMarkers ==
    (ProcessReturned /\ result.success) =>
        result.metadata.pages_processed = Len(markers)

(***************************************************************************)
(* C6: when extraction of some page k of a document raises, the extractor  *)
(* (either one) goes on: its output is exactly the marker and text of      *)
(* every page that yields non-blank text, in ascending order of their      *)
(* 1-based page numbers, with nothing for page k; and every extraction of  *)
(* the same document by the same extractor has given the same output.      *)
(* The markers appended are those of the text-yielding pages, ascending.   *)
(***************************************************************************)
\* the pages whose extraction returns text that is not blank
TextPages(pages) ==
    {i \in 1..Len(pages) : pages[i].kind = "text" /\ ~IsBlank(pages[i].text)}

RECURSIVE PiecesOf(_, _)
\* marker and text of the pages in S, lowest page number first
PiecesOf(pages, S) ==
    IF S = {} THEN << >>
    ELSE LET i == CHOOSE j \in S : \A k \in S : j <= k
         IN  <<Marker(i), pages[i].text>> \o PiecesOf(pages, S \ {i})

ExpectedOutput(pages) == JoinNL(PiecesOf(pages, TextPages(pages)))

C7_FetchFailure ==
    (ProcessReturned /\ pdf_content = NoBytes) =>
        /\ result = [success  |-> FALSE,
                     text     |-> "",
                     error    |-> "Failed to download PDF",
                     metadata |-> [url |-> url, method |-> method,
                                   pages_processed |-> 0,
                                   content_length |-> 0]]
        /\ ran = << >>
        /\ raised = None

\* the server answered 404 and the pipeline has returned
C7_Witness ==
    /\ ProcessReturned
    /\ pdf_content = NoBytes
    /\ getCalls = 1
    /\ response.status = 404
    /\ result.error = "Failed to download PDF"

(***************************************************************************)
(* C8: when the bytes fetched are not a valid document, an empty body      *)
(* included, the pipeline ends with success=false and the error "No text   *)
(* could be extracted from PDF", not with a download failure and not with  *)
(* an exception.                                                           *)
(***************************************************************************)
C8_InvalidDocumentIsEmptyExtraction ==
    (/\ ProcessReturned
     /\ IsStr(method)
     /\ pdf_content = body
     /\ body.kind \in {"empty", "garbage"}) =>
        /\ raised = None
        /\ ~result.success
        /\ result.error = "No text could be extracted from PDF"

(***************************************************************************)
(* C9: when the public function returns, the connection of the streamed    *)
(* response has been given back and the opened document is closed.         *)
(***************************************************************************)
C9_ResourcesReleased ==
    pc = "done" => response.conn # "held" /\ handle # "open"

seqVars ==
    <<pc, entry, url, extraction_method, method, body, response, pdf_content,
      strategy, page_num, text_content, handle, extracted_text, result, report,
      probe, exc, frame, raised, getCalls, headCalls, ran, markers, history>>

ConcUrls == {GoodUrl, "h.in/a.pdf"}

ConcMethods == {"pdfplumber", "bogus", None}

\* the served documents the concurrent callers are run against
ConcBodies ==
    { [kind |-> "garbage", pages |-> << >>],
      [kind |-> "pdf", pages |-> <<[kind |-> "raise", text |-> ""],
                                   [kind |-> "text", text |-> "x--- Page"]>>] }

\* what one request of a concurrent caller ends in: an answer with a body,
\* an error status, or an exception of requests
ConcOutcomes == {"200", "404", "Timeout"}

\* lines 55-75: what download_pdf returns for a request that ended in `net`
FetchedBytes(net) ==
    IF net \in NetErrors THEN NoBytes
    ELSE IF StatusRaises(StatusCode(net)) THEN NoBytes
    ELSE body

\* line 56: session.get merges the session's headers into the request it
\* sends and leaves the session's own headers as they are
SessionAfterGet(sess, u) == sess

RECURSIVE PageLoop(_, _, _, _)
\* lines 94-102 and 127-135: the page loop from page n on
PageLoop(s, pages, n, content) ==
    IF n > Len(pages) THEN content
    ELSE PageLoop(s, pages, n + 1,
                  IF ~PageRaises(s, pages[n]) /\ PageYields(s, pages[n])
                  THEN AppendPage(content, n, pages[n])
                  ELSE content)

\* lines 77-108 and 110-141: an extractor as a whole
ExtractText(s, b) ==
    IF b.kind # "pdf" THEN "" ELSE JoinNL(PageLoop(s, b.pages, 1, << >>))

\* a variant of ResultSlot for a result kept in one attribute of the processor
ResultSlotShared(p) == 1

\* line 154: `result` is a local of the call, one dict per invocation
ResultSlot(p) == p

\* lines 154-166: caller p enters process_pdf_from_url(u, m)
CStart(p, u, m) ==
    /\ callers[p].pc = "idle"
    /\ callers' = [callers EXCEPT ![p] =
                      [IdleCaller EXCEPT !.pc = "download", !.url = u,
                                         !.method = m]]
    /\ results' = [results EXCEPT ![ResultSlot(p)] = NewResult(u, m)]
    /\ UNCHANGED <<session, seqVars>>

\* lines 46-75 and 168: caller p's download_pdf
CDownload(p) ==
    /\ callers[p].pc = "download"
    /\ IF UrlParseRaises(callers[p].url) \/ ~ValidUrl(callers[p].url)
       THEN /\ callers' = [callers EXCEPT ![p].pc = "dispatch",
                                          ![p].pdf_content = NoBytes]
            /\ UNCHANGED session
       ELSE \E net \in ConcOutcomes :
               /\ callers' = [callers EXCEPT ![p].pc = "dispatch",
                                             ![p].net = net,
                                             ![p].sent = session.headers,
                                             ![p].pdf_content = FetchedBytes(net)]
               /\ session' = SessionAfterGet(session, callers[p].url)
    /\ UNCHANGED <<results, seqVars>>

\* lines 169-177 and 193-196, with the extractor called
CDispatch(p) ==
    /\ callers[p].pc = "dispatch"
    /\ IF ~BytesTruthy(callers[p].pdf_content)
       THEN /\ results' = [results EXCEPT ![ResultSlot(p)] = DownloadFailed(@)]
            /\ callers' = [callers EXCEPT ![p].pc = "done"]
       ELSE IF ~IsStr(callers[p].method)
       THEN /\ results' = [results EXCEPT ![ResultSlot(p)] =
                              UnexpectedFailure(@,
                                  "'NoneType' object has no attribute 'lower'")]
            /\ callers' = [callers EXCEPT ![p].pc = "done"]
       ELSE /\ callers' = [callers EXCEPT
                              ![p].pc = "evaluate",
                              ![p].extracted_text =
                                  ExtractText(SelectStrategy(callers[p].method),
                                              callers[p].pdf_content)]
            /\ UNCHANGED results
    /\ UNCHANGED <<session, seqVars>>

\* lines 179-191
CEvaluate(p) ==
    /\ callers[p].pc = "evaluate"
    /\ results' = [results EXCEPT ![ResultSlot(p)] =
                      IF IsBlank(callers[p].extracted_text)
                      THEN EmptyExtraction(@)
                      ELSE Success(@, callers[p].extracted_text)]
    /\ callers' = [callers EXCEPT ![p].pc = "done"]
    /\ UNCHANGED <<session, seqVars>>

\* caller p has its result; its locals are gone
CReturn(p) ==
    /\ callers[p].pc = "done"
    /\ callers' = [callers EXCEPT ![p] = IdleCaller]
    /\ results' = [results EXCEPT ![ResultSlot(p)] = NewResult(None, None)]
    /\ UNCHANGED <<session, seqVars>>

ConcInit == Init /\ body \in ConcBodies

ConcNext ==
    \/ \E p \in Callers, u \in ConcUrls, m \in ConcMethods : CStart(p, u, m)
    \/ \E p \in Callers : CDownload(p)
    \/ \E p \in Callers : CDispatch(p)
    \/ \E p \in Callers : CEvaluate(p)
    \/ \E p \in Callers : CReturn(p)

ConcSpec == ConcInit /\ [][ConcNext]_vars

(***************************************************************************)
(* C11: under every interleaving of concurrent invocations, each result    *)
(* envelope belongs to its own invocation (its url and method), two        *)
(* finished invocations with the same url, method and response hold the    *)
(* same result, no step changes the locals or the result of two callers,   *)
(* and the shared session is what the constructor made it.                 *)
(***************************************************************************)
\* caller p's locals or result change in this step
Touched(p) == callers'[p] # callers[p] \/ results'[p] # results[p]

C11_OwnEnvelope ==
    \A p \in Callers :
        callers[p].pc # "idle" =>
            /\ results[p].metadata.url = callers[p].url
            /\ results[p].metadata.method = callers[p].method

C11_SameInputsSameResult ==
    \A p, q \in Callers :
        (/\ callers[p].pc = "done" /\ callers[q].pc = "done"
         /\ callers[p].url = callers[q].url
         /\ callers[p].method = callers[q].method
         /\ callers[p].net = callers[q].net) =>
            results[p] = results[q]

C11_SessionAsConstructed ==
    /\ session = NewSession
    /\ \A p \in Callers : callers[p].sent \in {NoHeaders, NewSession.headers}

C11_Independent ==
    /\ [](C11_OwnEnvelope /\ C11_SameInputsSameResult /\ C11_SessionAsConstructed)
    /\ [][\A p, q \in Callers : Touched(p) /\ Touched(q) => p = q]_vars

\* two callers hold different finished results at the same time, one a
\* success and one a download failure
C11_Witness ==
    /\ callers[1].pc = "done" /\ results[1].success
    /\ callers[2].pc = "done" /\ results[2].error = "Failed to download PDF"
    /\ callers[2].sent = NewSession.headers

(***************************************************************************)
(* Reading a report back: a header field is the rest of the first line     *)
(* that starts with its label, and the text is what follows the section    *)
(* label and the empty line after it.                                      *)
(***************************************************************************)
\* the first position (1-based) at which sub occurs in s, 0 when it does not
IndexOf(s, sub) ==
    LET hits == {i \in 1..(Len(s) + 1) :
                    i + Len(sub) - 1 <= Len(s)
                        /\ SubSeq(s, i, i + Len(sub) - 1) = sub}
    IN  IF hits = {} THEN 0 ELSE CHOOSE i \in hits : \A j \in hits : i <= j

\* s from the end of the first occurrence of sub on
After(s, sub) == SubSeq(s, IndexOf(s, sub) + Len(sub), Len(s))

\* s up to its first line break
FirstLine(s) ==
    IF Find(s, "\n") = 0 THEN s ELSE SubSeq(s, 1, Find(s, "\n") - 1)

HeaderField(rep, label) == FirstLine(After(rep, "\n" \o label))

IsDigits(s) ==
    s # "" /\ \A i \in 1..Len(s) : Find("0123456789", CharAt(s, i)) > 0

RECURSIVE ParseNat(_)
\* the number a string of decimal digits denotes
ParseNat(s) ==
    IF s = "" THEN 0
    ELSE 10 * ParseNat(SubSeq(s, 1, Len(s) - 1))
            + (Find("0123456789", CharAt(s, Len(s))) - 1)

\* the digits of "Content Length: <n> characters"
LengthDigits(rep) ==
    LET line == HeaderField(rep, "Content Length: ")
    IN  IF IndexOf(line, " characters") = 0 THEN ""
        ELSE SubSeq(line, 1, IndexOf(line, " characters") - 1)

(***************************************************************************)
(* C12: for every successful result, the report download_and_parse_pdf     *)
(* returns gives back, from its header lines, exactly the result's url,    *)
(* method and content length, and after the "=== Text Content ===" label   *)
(* the extracted text unchanged.                                           *)
(***************************************************************************)
C12_RoundTrip ==
    (ToolReturned /\ result.success) =>
        /\ IndexOf(report, "\nSource URL: ") > 0
        /\ HeaderField(report, "Source URL: ") = result.metadata.url
        /\ HeaderField(report, "Extraction Method: ") = result.metadata.method
        /\ IsDigits(LengthDigits(report))
        /\ ParseNat(LengthDigits(report)) = result.metadata.content_length
        /\ IsDigits(HeaderField(report, "Pages Processed: "))
        /\ After(report, "\n=== Text Content ===\n\n") = result.text

(***************************************************************************)
(* C13: over the same document, extract_text_pdfplumber and                *)
(* extract_text_pypdf2 return the identical string whatever the pages      *)
(* yield (text, blank text, None, or an error), and bytes that do not open *)
(* as a document give "" from both.                                        *)
(***************************************************************************)
C13_Interchangeable ==
    /\ \A h1, h2 \in history : h1[2] = h2[2]
    /\ pc = "evaluate" =>
          /\ \A h \in history : h[2] = extracted_text
          /\ extracted_text = ExtractText("pdfplumber", pdf_content)
          /\ extracted_text = ExtractText("pypdf2", pdf_content)
          /\ pdf_content.kind # "pdf" => extracted_text = ""

\* both extractors have returned the same non-empty text for a document with
\* a page that gives None, a page that raises or a blank page
C13_Witness ==
    /\ \E t \in {h[2] : h \in history} :
          /\ t # ""
          /\ {<<"pdfplumber", t>>, <<"pypdf2", t>>} \subseteq history
    /\ \E i \in 1..Len(body.pages) :
          body.pages[i].kind \in {"none", "raise"} \/ IsBlank(body.pages[i].text)

\* both extractors have returned "" for bytes that are not a document
C13_WitnessUnopened ==
    /\ body.kind # "pdf"
    /\ {<<"pdfplumber", "">>, <<"pypdf2", "">>} \subseteq history

(***************************************************************************)
(* The steps of one pipeline invocation, in the order of the source text,  *)
(* and how far the invocation has got.                                     *)
(***************************************************************************)
InPipeline == entry \in {"process", "tool"}

\* the invocation has started and has not returned yet
InFlight == InPipeline /\ pc \notin {"idle", "done"}

\* Validate = 1, Fetch = 2..5, Extract = 6..9, Evaluate = 10, Format = 12;
\* an exception in flight stands where its handler's try block ends
Position ==
    CASE pc = "idle"        -> 0
      [] pc = "dl_validate" -> 1
      [] pc = "dl_get"      -> 2
      [] pc = "dl_status"   -> 3
      [] pc = "dl_read"     -> 4
      [] pc = "dispatch"    -> 6
      [] pc = "ex_open"     -> 7
      [] pc = "ex_page"     -> 8
      [] pc = "evaluate"    -> 10
      [] pc = "format"      -> 12
      [] pc = "done"        -> 14
      [] pc = "raising"     ->
            (CASE Landing(frame, exc) = "download" -> 5
               [] Landing(frame, exc) = "page"     -> 8
               [] Landing(frame, exc) = "extract"  -> 9
               [] Landing(frame, exc) = "process"  -> 11
               [] OTHER                            -> 13)
      [] OTHER              -> 0

\* progress inside the page loop: the page in hand, and whether it has raised
LoopProgress ==
    IF Position = 8
    THEN 2 * page_num + (IF pc = "raising" THEN 1 ELSE 0)
    ELSE 0

Progress == Position * (2 * MaxPages + 4) + LoopProgress

\* the guards of the steps that move an invocation forward: DownloadValidate,
\* SessionGet, RaiseForStatus, ReadContent, Dispatch, ExtractOpen, Evaluate,
\* Format and Unwind each wait for their own pc alone, ExtractPage and
\* ExtractReturn share "ex_page"
HasStep ==
    \/ pc \in {"dl_validate", "dl_get", "dl_status", "dl_read", "dispatch",
               "ex_open", "evaluate", "format", "raising"}
    \/ pc = "ex_page" /\ page_num <= Len(pdf_content.pages)
    \/ pc = "ex_page" /\ page_num > Len(pdf_content.pages)

(***************************************************************************)
(* C14: an invocation of the pipeline is one linear pass                   *)
(* Validate -> Fetch -> Extract -> Evaluate that always reaches a terminal *)
(* result: at most one GET is issued and none is repeated after a network  *)
(* error, one extractor is invoked at most once and only after the fetch   *)
(* returned bytes, and no step is ever followed by an earlier one.         *)
(* Termination is stated through a variant: every step of an invocation    *)
(* in flight strictly increases Progress, Progress is bounded, and an      *)
(* invocation in flight always has a step to take.                         *)
(***************************************************************************)
C14_Bounded ==
    InPipeline =>
        /\ getCalls <= 1
        /\ Len(ran) <= 1
        /\ ran # << >> =>
              /\ getCalls = 1
              /\ response.status = 200
              /\ pdf_content = body
              /\ body.kind # "empty"
              /\ Position >= 7
        /\ Progress <= 14 * (2 * MaxPages + 4)
        /\ LoopProgress <= 2 * MaxPages + 3
        /\ InFlight => HasStep

C14_Forward ==
    InFlight =>
        \/ Progress' > Progress
        \/ /\ Progress' = Progress
           /\ response.conn = "held"
           /\ response'.conn = "released"

C14_LinearPass == [](C14_Bounded) /\ [][C14_Forward]_vars

\* a successful invocation has returned after one GET and one extractor call
\* over a document whose first page raised
C14_Witness ==
    /\ InPipeline
    /\ pc = "done"
    /\ result.success
    /\ getCalls = 1
    /\ Len(ran) = 1
    /\ body.pages[1].kind = "raise"

(***************************************************************************)
(* C15: whenever process_pdf_from_url returns after an extractor ran, the  *)
(* result's metadata.method is the name of the extractor that was called,  *)
(* whatever the method argument was.                                       *)
(***************************************************************************)
C15_MethodNamesStrategyRun ==
    (ProcessReturned /\ ran # << >>) => result.metadata.method = ran[1]

====
